---- MODULE Spec2Model ----
(***************************************************************************)
(* UPB message codec of upb_lib (src/upb_lib/message.py): MessageDecode    *)
(* (handler registry, decode, handle) and MessageEncode (control word,     *)
(* frame assembly, checksum, hex serialisation, increment_tx_count).       *)
(*                                                                         *)
(* Bytes are integers 0..255, byte strings are sequences of bytes, and a   *)
(* hex frame is a sequence of one-character strings.                       *)
(***************************************************************************)
EXTENDS Integers, Sequences, FiniteSets, TLC

VARIABLES
    handlers,   \* MessageDecode._handlers: command code -> list of callbacks
    ctlWord,    \* control word the caller built with _create_control_word, with its arguments
    frame,      \* hex frame the caller holds: result of the last encoder / increment_tx_count call
    built,      \* arguments of the encoder call that built frame
    first,      \* frame as the encoder returned it, before any increment_tx_count
    resent,     \* number of increment_tx_count calls applied to first
    call,       \* the most recent call: operation name and arguments
    result,     \* what the most recent call returned, or the exception it raised
    called      \* callbacks invoked during the most recent call, in order

vars == <<handlers, ctlWord, frame, built, first, resent, call, result, called>>

-----------------------------------------------------------------------------
(* Bounds of the model *)

\* longest payload handed to _encode_message (total frame length 7 + MaxPayload)
MaxPayload == 25
\* most increment_tx_count calls applied to one frame
MaxResend == 4

-----------------------------------------------------------------------------
(* Integer helpers for Python's int operators *)

RECURSIVE Pow2(_)
Pow2(n) == IF n = 0 THEN 1 ELSE 2 * Pow2(n - 1)

\* x << n and x >> n on non-negative integers
Shl(x, n) == x * Pow2(n)
Shr(x, n) == x \div Pow2(n)

\* a | b on non-negative integers
RECURSIVE BitOr(_, _)
BitOr(a, b) ==
    IF a = 0 THEN b
    ELSE IF b = 0 THEN a
    ELSE (IF (a % 2 = 1) \/ (b % 2 = 1) THEN 1 ELSE 0) + 2 * BitOr(a \div 2, b \div 2)

\* a & b on non-negative integers
RECURSIVE BitAnd(_, _)
BitAnd(a, b) ==
    IF a = 0 \/ b = 0 THEN 0
    ELSE (IF (a % 2 = 1) /\ (b % 2 = 1) THEN 1 ELSE 0) + 2 * BitAnd(a \div 2, b \div 2)

\* reduce(lambda x, y: x + y, msg)
RECURSIVE Sum(_)
Sum(s) == IF s = <<>> THEN 0 ELSE Head(s) + Sum(Tail(s))

Min(a, b) == IF a < b THEN a ELSE b

\* int(rate): the rate argument is carried in tenths; int() truncates toward zero
IntOf(tenths) == IF tenths >= 0 THEN tenths \div 10 ELSE -((-tenths) \div 10)

-----------------------------------------------------------------------------
(* bytes <-> int and bytes <-> hex *)

Raised(exc) == [ok |-> FALSE, raised |-> exc]
Returned(v) == [ok |-> TRUE, value |-> v]

\* ctl.to_bytes(2, byteorder="big"): OverflowError unless 0 <= ctl < 2^16
ToBytes2(ctl) ==
    IF ctl < 0 \/ ctl >= 65536
    THEN Raised("OverflowError")
    ELSE Returned(<<ctl \div 256, ctl % 256>>)

\* int.from_bytes(msg[0:2], byteorder="big")
FromBytes2(msg) == msg[1] * 256 + msg[2]

HexDigits == <<"0", "1", "2", "3", "4", "5", "6", "7",
               "8", "9", "A", "B", "C", "D", "E", "F">>
LowerHexDigits == <<"0", "1", "2", "3", "4", "5", "6", "7",
                    "8", "9", "a", "b", "c", "d", "e", "f">>

\* bytearray.hex().upper(): two upper-case digits per byte, high nibble first
Hex(msg) ==
    [i \in 1..(2 * Len(msg)) |->
        LET b == msg[(i + 1) \div 2]
        IN  IF i % 2 = 1 THEN HexDigits[(b \div 16) + 1] ELSE HexDigits[(b % 16) + 1]]

HexVal(c) == CHOOSE v \in 0..15 : HexDigits[v + 1] = c \/ LowerHexDigits[v + 1] = c

\* bytearray.fromhex(hex_msg), on a string of an even number of hex digits
FromHex(h) ==
    [i \in 1..(Len(h) \div 2) |-> 16 * HexVal(h[2 * i - 1]) + HexVal(h[2 * i])]

\* the transport strips the trailing checksum byte before decode (message.py:60)
StripChecksum(msg) == SubSeq(msg, 1, Len(msg) - 1)

-----------------------------------------------------------------------------
(* Command codes and addresses *)

PIM_ID == 255

UpbCommand ==
    [ACTIVATE |-> 32, DEACTIVATE |-> 33, GOTO |-> 34, FADE_START |-> 35,
     FADE_STOP |-> 36, BLINK |-> 37, REPORT_STATE |-> 48,
     DEVICE_STATE_REPORT |-> 134, REGISTER_VALUES_REPORT |-> 144]

\* UpbAddr(network_id, upb_id, channel, multi_channel) for a device
UpbAddr(network_id, upb_id, channel, multi_channel) ==
    [network_id |-> network_id, upb_id |-> upb_id, channel |-> channel,
     multi_channel |-> multi_channel, is_link |-> FALSE, is_device |-> TRUE]

\* the address of a link: is_link, no channels
LinkAddr(network_id, upb_id) ==
    [network_id |-> network_id, upb_id |-> upb_id, channel |-> 0,
     multi_channel |-> FALSE, is_link |-> TRUE, is_device |-> FALSE]

Addrs == {LinkAddr(1, 5), UpbAddr(1, 9, 0, FALSE), UpbAddr(200, 255, 2, TRUE)}

\* values get_tx_count(network_id, upb_id) returns: 1 to 4 transmits
TxCounts == 1..4


-----------------------------------------------------------------------------
(* MessageDecode *)

\* self._handlers.get(cmd, [])
HandlerList(hs, cmd) == IF cmd \in DOMAIN hs THEN hs[cmd] ELSE <<>>

InList(list, x) == \E i \in 1..Len(list) : list[i] = x

\* add_handler inserting at the front of the list instead of appending
add_handler_front(hs, message_type, handler) ==
    LET withKey == IF message_type \notin DOMAIN hs
                   THEN hs @@ (message_type :> <<>>)
                   ELSE hs
    IN  IF ~InList(withKey[message_type], handler)
        THEN [withKey EXCEPT ![message_type] = <<handler>> \o @]
        ELSE withKey

\* MessageDecode.add_handler: the registry after add_handler(message_type, handler)
add_handler(hs, message_type, handler) ==
    LET withKey == IF message_type \notin DOMAIN hs
                   THEN hs @@ (message_type :> <<>>)
                   ELSE hs
    IN  IF ~InList(withKey[message_type], handler)
        THEN [withKey EXCEPT ![message_type] = Append(@, handler)]
        ELSE withKey

\* MessageDecode.call_handlers with a Message (not a dict): the invocations
\* handler(message) it makes, in order; callbacks are opaque and return
call_handlers(hs, cmd, message) ==
    LET list == HandlerList(hs, cmd)
    IN  [i \in 1..Len(list) |-> [handler |-> list[i], message |-> message]]

\* decode with the length guard off by one (<= 6 instead of < 6)
decode_short_guard(msg) ==
    IF Len(msg) <= 6
    THEN Raised("ValueError")
    ELSE LET control == FromBytes2(msg)
         IN  Returned(
                [link         |-> BitAnd(control, 32768) # 0,
                 repeater_req |-> BitAnd(Shr(control, 13), 3),
                 length       |-> BitAnd(Shr(control, 8), 31),
                 ack_req      |-> BitAnd(Shr(control, 4), 7),
                 tx_count     |-> BitAnd(Shr(control, 2), 3),
                 tx_seq       |-> BitAnd(control, 3),
                 network_id   |-> msg[3],
                 dest_id      |-> msg[4],
                 src_id       |-> msg[5],
                 msg_id       |-> msg[6],
                 data         |-> SubSeq(msg, 7, Len(msg))])

\* decode with the destination and source bytes swapped
decode_swapped_ids(msg) ==
    IF Len(msg) < 6
    THEN Raised("ValueError")
    ELSE LET control == FromBytes2(msg)
         IN  Returned(
                [link         |-> BitAnd(control, 32768) # 0,
                 repeater_req |-> BitAnd(Shr(control, 13), 3),
                 length       |-> BitAnd(Shr(control, 8), 31),
                 ack_req      |-> BitAnd(Shr(control, 4), 7),
                 tx_count     |-> BitAnd(Shr(control, 2), 3),
                 tx_seq       |-> BitAnd(control, 3),
                 network_id   |-> msg[3],
                 dest_id      |-> msg[5],
                 src_id       |-> msg[4],
                 msg_id       |-> msg[6],
                 data         |-> SubSeq(msg, 7, Len(msg))])

\* MessageDecode.decode on a byte string with PIM command and checksum stripped
decode(msg) ==
    IF Len(msg) < 6
    THEN Raised("ValueError")
    ELSE LET control == FromBytes2(msg)
         IN  Returned(
                [link         |-> BitAnd(control, 32768) # 0,
                 repeater_req |-> BitAnd(Shr(control, 13), 3),
                 length       |-> BitAnd(Shr(control, 8), 31),
                 ack_req      |-> BitAnd(Shr(control, 4), 7),
                 tx_count     |-> BitAnd(Shr(control, 2), 3),
                 tx_seq       |-> BitAnd(control, 3),
                 network_id   |-> msg[3],
                 dest_id      |-> msg[4],
                 src_id       |-> msg[5],
                 msg_id       |-> msg[6],
                 data         |-> SubSeq(msg, 7, Len(msg))])

\* handle returning the raw tx_count field instead of tx_count + 1
handle_raw_count(hs, msg) ==
    LET d == decode(msg)
    IN  IF ~d.ok
        THEN [result |-> d, called |-> <<>>]
        ELSE [result |-> Returned(<<d.value.network_id, d.value.src_id,
                                    d.value.tx_count>>),
              called |-> call_handlers(hs, d.value.msg_id, d.value)]

\* MessageDecode.handle: decode, dispatch on msg_id, return the summary triple
handle(hs, msg) ==
    LET d == decode(msg)
    IN  IF ~d.ok
        THEN [result |-> d, called |-> <<>>]
        ELSE [result |-> Returned(<<d.value.network_id, d.value.src_id,
                                    d.value.tx_count + 1>>),
              called |-> call_handlers(hs, d.value.msg_id, d.value)]

-----------------------------------------------------------------------------
(* MessageEncode *)

\* checksum as the one's complement of the sum (255 - sum instead of 256 - sum)
update_checksum_complement(msg) ==
    [i \in 1..Len(msg) |-> IF i = Len(msg) THEN (255 - Sum(msg)) % 256 ELSE msg[i]]

\* _update_checksum: msg[-1] = (256 - sum(msg)) % 256
update_checksum(msg) ==
    [i \in 1..Len(msg) |-> IF i = Len(msg) THEN (256 - Sum(msg)) % 256 ELSE msg[i]]

\* control word carrying the declared count itself instead of the count minus one
create_control_word_raw_count(addr, repeater, ack, n) ==
    LET c0 == Shl(IF addr.is_link THEN 1 ELSE 0, 15)
        c1 == BitOr(c0, Shl(repeater, 13))
        c2 == BitOr(c1, Shl(ack, 4))
    IN  BitOr(c2, Shl(n, 2))

\* MessageEncode._create_control_word; n is what get_tx_count(network_id, upb_id) returns
create_control_word(addr, repeater, ack, n) ==
    LET c0 == Shl(IF addr.is_link THEN 1 ELSE 0, 15)
        c1 == BitOr(c0, Shl(repeater, 13))
        c2 == BitOr(c1, Shl(ack, 4))
    IN  BitOr(c2, Shl(n - 1, 2))

\* MessageEncode._encode_message; ctl = -1 asks for the default control word
encode_message(ctl, addr, src_id, msg_code, data, n) ==
    LET ctl1   == IF ctl = -1 THEN create_control_word(addr, 0, 0, n) ELSE ctl
        length == 7 + Len(data)
        ctl2   == BitOr(ctl1, Shl(length, 8))
        cb     == ToBytes2(ctl2)
        msg    == [i \in 1..length |->
                     CASE i = 1 -> cb.value[1]
                       [] i = 2 -> cb.value[2]
                       [] i = 3 -> addr.network_id
                       [] i = 4 -> addr.upb_id
                       [] i = 5 -> src_id
                       [] i = 6 -> msg_code
                       [] i >= 7 /\ i <= Len(data) + 6 -> data[i - 6]
                       [] OTHER -> 0]
    IN  IF ~cb.ok THEN cb ELSE Returned(Hex(update_checksum(msg)))

\* increment_tx_count wrapping from 3 to 0 instead of saturating
increment_tx_count_wrapping(hex_msg) ==
    LET msg      == FromHex(hex_msg)
        ctl      == msg[2]
        tx_count == BitAnd(Shr(ctl, 2), 3)
        cleared  == ctl - BitAnd(ctl, Shl(3, 2))
        ctl2     == BitOr(cleared, Shl((tx_count + 1) % 4, 2))
        msg2     == [i \in 1..Len(msg) |->
                        IF i = Len(msg) THEN 0 ELSE IF i = 2 THEN ctl2 ELSE msg[i]]
    IN  Hex(update_checksum(msg2))

\* increment_tx_count working on byte index 0, the high byte of the control word
increment_tx_count_high_byte(hex_msg) ==
    LET msg      == FromHex(hex_msg)
        ctl      == msg[1]
        tx_count == BitAnd(Shr(ctl, 2), 3)
        cleared  == ctl - BitAnd(ctl, Shl(3, 2))
        ctl2     == BitOr(cleared, Shl(tx_count + 1, 2))
        msg2     == [i \in 1..Len(msg) |->
                        IF i = Len(msg) THEN 0 ELSE IF i = 1 THEN ctl2 ELSE msg[i]]
    IN  IF tx_count = 3 THEN hex_msg ELSE Hex(update_checksum(msg2))

\* MessageEncode.increment_tx_count
increment_tx_count(hex_msg) ==
    LET msg      == FromHex(hex_msg)
        ctl      == msg[2]
        tx_count == BitAnd(Shr(ctl, 2), 3)
        cleared  == ctl - BitAnd(ctl, Shl(3, 2))
        ctl2     == BitOr(cleared, Shl(tx_count + 1, 2))
        msg2     == [i \in 1..Len(msg) |->
                        IF i = Len(msg) THEN 0 ELSE IF i = 2 THEN ctl2 ELSE msg[i]]
    IN  IF tx_count = 3 THEN hex_msg ELSE Hex(update_checksum(msg2))

\* payload with the channel index as it is, not channel + 1
level_rate_args_zero_based(addr, level, rate) ==
    LET r == IntOf(rate)
    IN  IF addr.is_device /\ addr.multi_channel
        THEN <<level, IF r = -1 THEN 255 ELSE r, addr.channel>>
        ELSE IF r # -1 THEN <<level, r>> ELSE <<level>>

\* the payload _encode_common builds (message.py:144-150); rate is in tenths
level_rate_args(addr, level, rate) ==
    LET r == IntOf(rate)
    IN  IF addr.is_device /\ addr.multi_channel
        THEN <<level, IF r = -1 THEN 255 ELSE r, addr.channel + 1>>
        ELSE IF r # -1 THEN <<level, r>> ELSE <<level>>

\* MessageEncode._encode_common
encode_common(ctl, addr, cmd, level, rate, n) ==
    encode_message(ctl, addr, PIM_ID, cmd, level_rate_args(addr, level, rate), n)

activate_link(addr, ctl, n) == encode_message(ctl, addr, PIM_ID, UpbCommand.ACTIVATE, <<>>, n)

deactivate_link(addr, ctl, n) == encode_message(ctl, addr, PIM_ID, UpbCommand.DEACTIVATE, <<>>, n)

goto(addr, level, rate, ctl, n) == encode_common(ctl, addr, UpbCommand.GOTO, level, rate, n)

fade_start(addr, level, rate, ctl, n) == encode_common(ctl, addr, UpbCommand.FADE_START, level, rate, n)

fade_stop(addr, ctl, n) == encode_message(ctl, addr, PIM_ID, UpbCommand.FADE_STOP, <<>>, n)

blink(addr, rate, ctl, n) == encode_message(ctl, addr, PIM_ID, UpbCommand.BLINK, <<rate>>, n)

report_state(addr, ctl, n) == encode_message(ctl, addr, PIM_ID, UpbCommand.REPORT_STATE, <<>>, n)

-----------------------------------------------------------------------------
(* Inputs the callers supply *)

\* callbacks offered to add_handler
Callbacks == {"on_goto", "on_report"}

\* command codes handlers are registered for
HandlerCodes == {UpbCommand.GOTO, UpbCommand.REPORT_STATE}

\* caller-supplied control words: device word with tx_seq 3, and one too wide for 2 bytes
CtlSamples == {3, 65536}

Levels == {50}

\* rate arguments in tenths: -1, 10, 10.5
Rates == {-10, 100, 105}

BlinkRates == {30, 255}

SrcIds == {PIM_ID, 1}

\* payload of n bytes with varying contents
Payload(n) == [i \in 1..n |-> (37 * i + 200) % 256]

PayloadLens == {0, 17} \cup ((MaxPayload - 1)..MaxPayload)

\* byte strings arriving from the transport, checksum stripped: empty, 5 bytes,
\* a device state report, a link goto, and 6 bytes of 0xFF with an unknown code
RawSamples ==
    { <<>>,
      <<8, 0, 1, 9, 255>>,
      <<8, 4, 1, 255, 9, 134, 50>>,
      <<137, 12, 1, 5, 255, 34, 100, 3>>,
      <<255, 255, 255, 255, 255, 119>> }

NoFrame == <<>>
\* no control word built yet
NoWord == [word |-> -1]
NoCall == [op |-> "none"]

\* ctl arguments an encoder is called with: the default, a sample, or the word built
CtlArgs == {-1} \cup CtlSamples \cup (IF ctlWord.word = -1 THEN {} ELSE {ctlWord.word})

\* get_tx_count is consulted only for the default control word
TxArgs(ctl) == IF ctl = -1 THEN TxCounts ELSE {0}

-----------------------------------------------------------------------------
(* State machine *)

Init ==
    /\ handlers = <<>>
    /\ ctlWord = NoWord
    /\ frame = NoFrame
    /\ built = NoCall
    /\ first = NoFrame
    /\ resent = 0
    /\ call = NoCall
    /\ result = Returned("None")
    /\ called = <<>>

\* the arguments of a _create_control_word call, drawn over their whole ranges
InitPack ==
    /\ Init!1 /\ Init!3 /\ Init!4 /\ Init!5 /\ Init!6 /\ Init!7 /\ Init!8 /\ Init!9
    /\ ctlWord \in [word : {-1}, addr : Addrs, repeater : 0..3, ack : 0..7, n : TxCounts]

\* an encoder call returning r (a hex frame, or an exception) for the given arguments
Encoded(op, addr, ctl, n, src_id, msg_code, data, level, rate, r) ==
    /\ call' = [op |-> op, addr |-> addr, ctl |-> ctl, n |-> n, src_id |-> src_id,
                msg_code |-> msg_code, data |-> data, level |-> level, rate |-> rate]
    /\ result' = r
    /\ frame' = IF r.ok THEN r.value ELSE NoFrame
    /\ first' = frame'
    /\ built' = IF r.ok THEN call' ELSE NoCall
    /\ resent' = 0
    /\ called' = <<>>
    /\ UNCHANGED <<handlers, ctlWord>>

AddHandler ==
    \E c \in HandlerCodes, h \in Callbacks :
        /\ handlers' = add_handler(handlers, c, h)
        /\ call' = [op |-> "add_handler", message_type |-> c, handler |-> h]
        /\ result' = Returned("None")
        /\ called' = <<>>
        /\ UNCHANGED <<ctlWord, frame, built, first, resent>>

\* bytes the transport can hand over: samples, or the frame just sent (echoed by the PIM)
Incoming == RawSamples \cup (IF frame = NoFrame THEN {} ELSE {StripChecksum(FromHex(frame))})

\* a decode(m) call
Decoded(m) ==
    /\ call' = [op |-> "decode", msg |-> m]
    /\ result' = decode(m)
    /\ called' = <<>>
    /\ UNCHANGED <<handlers, ctlWord, frame, built, first, resent>>

\* decode of bytes received from the transport
Decode == \E m \in RawSamples : Decoded(m)

\* decode of the frame the caller holds, checksum stripped
DecodeFrame ==
    /\ frame # NoFrame
    /\ Decoded(StripChecksum(FromHex(frame)))

Handle ==
    \E m \in Incoming :
        /\ call' = [op |-> "handle", msg |-> m]
        /\ LET h == handle(handlers, m)
           IN  /\ result' = h.result
               /\ called' = h.called
        /\ UNCHANGED <<handlers, ctlWord, frame, built, first, resent>>

\* the caller builds a control word from the arguments it chose
CreateControlWord ==
    /\ ctlWord # NoWord
    /\ ctlWord.word = -1
    /\ ctlWord' = [ctlWord EXCEPT !.word = create_control_word(ctlWord.addr, ctlWord.repeater,
                                                               ctlWord.ack, ctlWord.n)]
    /\ call' = [op |-> "create_control_word", addr |-> ctlWord.addr,
                repeater |-> ctlWord.repeater, ack |-> ctlWord.ack, n |-> ctlWord.n]
    /\ result' = Returned(ctlWord'.word)
    /\ called' = <<>>
    /\ UNCHANGED <<handlers, frame, built, first, resent>>

EncodeMessage ==
    \E addr \in Addrs, ctl \in CtlArgs, src \in SrcIds, len \in PayloadLens :
        \E n \in TxArgs(ctl) :
            Encoded("encode_message", addr, ctl, n, src, UpbCommand.REGISTER_VALUES_REPORT,
                    Payload(len), 0, 0,
                    encode_message(ctl, addr, src, UpbCommand.REGISTER_VALUES_REPORT,
                                   Payload(len), n))

ActivateLink ==
    \E addr \in Addrs, ctl \in CtlArgs :
        \E n \in TxArgs(ctl) :
            Encoded("activate_link", addr, ctl, n, PIM_ID, UpbCommand.ACTIVATE, <<>>, 0, 0,
                    activate_link(addr, ctl, n))

DeactivateLink ==
    \E addr \in Addrs, ctl \in CtlArgs :
        \E n \in TxArgs(ctl) :
            Encoded("deactivate_link", addr, ctl, n, PIM_ID, UpbCommand.DEACTIVATE, <<>>, 0, 0,
                    deactivate_link(addr, ctl, n))

Goto ==
    \E addr \in Addrs, ctl \in CtlArgs, level \in Levels, rate \in Rates :
        \E n \in TxArgs(ctl) :
            Encoded("goto", addr, ctl, n, PIM_ID, UpbCommand.GOTO,
                    level_rate_args(addr, level, rate), level, rate,
                    goto(addr, level, rate, ctl, n))

FadeStart ==
    \E addr \in Addrs, ctl \in CtlArgs, level \in Levels, rate \in Rates :
        \E n \in TxArgs(ctl) :
            Encoded("fade_start", addr, ctl, n, PIM_ID, UpbCommand.FADE_START,
                    level_rate_args(addr, level, rate), level, rate,
                    fade_start(addr, level, rate, ctl, n))

FadeStop ==
    \E addr \in Addrs, ctl \in CtlArgs :
        \E n \in TxArgs(ctl) :
            Encoded("fade_stop", addr, ctl, n, PIM_ID, UpbCommand.FADE_STOP, <<>>, 0, 0,
                    fade_stop(addr, ctl, n))

Blink ==
    \E addr \in Addrs, ctl \in CtlArgs, rate \in BlinkRates :
        \E n \in TxArgs(ctl) :
            Encoded("blink", addr, ctl, n, PIM_ID, UpbCommand.BLINK, <<rate>>, 0, rate,
                    blink(addr, rate, ctl, n))

ReportState ==
    \E addr \in Addrs, ctl \in CtlArgs :
        \E n \in TxArgs(ctl) :
            Encoded("report_state", addr, ctl, n, PIM_ID, UpbCommand.REPORT_STATE, <<>>, 0, 0,
                    report_state(addr, ctl, n))

\* the caller retries: frame = increment_tx_count(frame)
IncrementTxCount ==
    /\ frame # NoFrame
    /\ resent < MaxResend
    /\ call' = [op |-> "increment_tx_count", hex_msg |-> frame]
    /\ frame' = increment_tx_count(frame)
    /\ result' = Returned(frame')
    /\ resent' = resent + 1
    /\ called' = <<>>
    /\ UNCHANGED <<handlers, ctlWord, built, first>>

\* the command encoders, retransmission and decoding of what was encoded
NextCodec ==
    \/ EncodeMessage
    \/ ActivateLink
    \/ DeactivateLink
    \/ Goto
    \/ FadeStart
    \/ FadeStop
    \/ Blink
    \/ ReportState
    \/ IncrementTxCount
    \/ DecodeFrame

\* control words built by the caller and carried by a frame
NextPack ==
    \/ CreateControlWord
    \/ FadeStop
    \/ DecodeFrame

\* handler registration and dispatch of incoming frames
NextDispatch ==
    \/ AddHandler
    \/ Handle
    \/ Decode
    \/ ReportState
    \/ IncrementTxCount

Next == NextCodec \/ NextPack \/ NextDispatch

Spec == Init /\ [][NextCodec]_vars

SpecPack == InitPack /\ [][NextPack]_vars

SpecDispatch == Init /\ [][NextDispatch]_vars

-----------------------------------------------------------------------------
(* Observations used by the properties *)

EncoderOps == {"encode_message", "activate_link", "deactivate_link", "goto",
               "fade_start", "fade_stop", "blink", "report_state"}

\* the bytes of a hex frame, and the Message the decoder reports for it
FrameBytes(h) == FromHex(h)
MessageOf(h) == decode(StripChecksum(FromHex(h))).value

\* bits hi..lo of a word, by arithmetic
Field(word, hi, lo) == (word \div Pow2(lo)) % Pow2(hi - lo + 1)

\* the control word an encoder call started from, before the length is merged
StartWord(c) == IF c.ctl = -1 THEN create_control_word(c.addr, 0, 0, c.n) ELSE c.ctl

-----------------------------------------------------------------------------
(* C1: every frame an encoder returns, and every frame increment_tx_count  *)
(* returns for it after any number of applications, has byte sum 0 mod 256 *)
(* (checksum byte included).                                               *)
ChecksumHolds ==
    /\ frame # NoFrame => Sum(FrameBytes(frame)) % 256 = 0
    /\ (call.op \in EncoderOps \cup {"increment_tx_count"} /\ result.ok)
          => Sum(FrameBytes(result.value)) % 256 = 0

\* a frame with a non-zero checksum byte, re-checksummed by increment_tx_count
ChecksumWitness ==
    /\ call.op = "increment_tx_count"
    /\ resent >= 2
    /\ result.value # call.hex_msg
    /\ FrameBytes(frame)[Len(FrameBytes(frame))] # 0
    /\ built.op = "goto"

-----------------------------------------------------------------------------
(* C2: an encode whose total length 7 + len(payload) is 32 fails and       *)
(* produces no frame; with total length 31 it succeeds; every successful   *)
(* encode has a length field (bits 12-8) equal to the number of bytes of   *)
(* the frame and leaves link, repeater request, ack request, tx count and  *)
(* tx sequence as they were before the length was merged (for a control    *)
(* word of 16 bits).                                                       *)
FrameTooLongRejected ==
    (call.op \in EncoderOps /\ StartWord(call) < 65536) =>
        /\ 7 + Len(call.data) = 32 => (~result.ok /\ frame = NoFrame)
        /\ 7 + Len(call.data) = 31 => result.ok
        /\ result.ok =>
              LET m == MessageOf(result.value)
                  w == StartWord(call)
              IN  /\ m.length = Len(FrameBytes(result.value))
                  /\ m.link = (Field(w, 15, 15) = 1)
                  /\ m.repeater_req = Field(w, 14, 13)
                  /\ m.ack_req = Field(w, 6, 4)
                  /\ m.tx_count = Field(w, 3, 2)
                  /\ m.tx_seq = Field(w, 1, 0)

-----------------------------------------------------------------------------
\* the caller decoded the frame it holds (checksum stripped), of at most 31 bytes
DecodedOwnFrame ==
    /\ call.op = "decode"
    /\ frame # NoFrame
    /\ call.msg = StripChecksum(FrameBytes(frame))
    /\ Len(FrameBytes(frame)) <= 31

\* network, destination, source, command code and payload come back as encoded
RoundTripFields ==
    /\ result.ok
    /\ result.value.network_id = built.addr.network_id
    /\ result.value.dest_id = built.addr.upb_id
    /\ result.value.src_id = built.src_id
    /\ result.value.msg_id = built.msg_code
    /\ result.value.data = built.data

(* C3 as stated: decoding an encoded frame of at most 31 bytes, checksum   *)
(* stripped, yields the address's network and target ids, the source id    *)
(* passed to encode, the command code, link = addr.is_link and the payload *)
(* bytes that were encoded.                                                *)
RoundTripLinkFromAddr ==
    DecodedOwnFrame =>
        /\ RoundTripFields
        /\ result.value.link = built.addr.is_link

(* C3 amended: the same, with link = addr.is_link when the encoder builds  *)
(* the control word itself (ctl = -1), and link = bit 15 of the control    *)
(* word the caller passed otherwise.                                       *)
RoundTrip ==
    DecodedOwnFrame =>
        /\ RoundTripFields
        /\ result.value.link =
              (IF built.ctl = -1 THEN built.addr.is_link ELSE Field(built.ctl, 15, 15) = 1)

\* a link goto with a payload and a foreign source id both occur; here a
\* multi-channel goto with the default control word was decoded after a retry
RoundTripWitness ==
    /\ DecodedOwnFrame
    /\ built.op = "goto"
    /\ built.ctl = -1
    /\ built.addr.multi_channel
    /\ result.value.data = <<50, 255, 3>>
    /\ result.value.src_id = PIM_ID
    /\ resent = 1

-----------------------------------------------------------------------------
\* the tx-count field of a hex frame, as the decoder reports it
TxCountOf(h) == MessageOf(h).tx_count

(* C4: increment_tx_count saturates: after k applications to a frame whose *)
(* tx-count field is t the field is min(t + k, 3) (from 0: 1, 2, 3, 3),    *)
(* and applied to a frame whose field is 3 it returns its input unchanged. *)
TxCountSaturates ==
    /\ frame # NoFrame => TxCountOf(frame) = Min(TxCountOf(first) + resent, 3)
    /\ (call.op = "increment_tx_count" /\ TxCountOf(call.hex_msg) = 3)
          => result.value = call.hex_msg

\* the fourth increment of a frame that started at 0
TxCountSaturatesWitness ==
    /\ call.op = "increment_tx_count"
    /\ resent = 4
    /\ TxCountOf(first) = 0
    /\ TxCountOf(call.hex_msg) = 3
    /\ TxCountOf(frame) = 3

-----------------------------------------------------------------------------
\* the payload bytes of a hex frame: after the 6 header bytes, before the checksum
PayloadOf(h) == SubSeq(FrameBytes(h), 7, Len(FrameBytes(h)) - 1)

(* C8: the payload of goto and fade_start is [level, (0xFF if rate = -1    *)
(* else rate), channel + 1] for a multi-channel device; otherwise          *)
(* [level, rate] if rate # -1, and [level] if rate = -1 (rate after the    *)
(* coercion to an integer). A link or a single-channel device never gets a *)
(* channel byte.                                                           *)
LevelRatePayload ==
    (call.op \in {"goto", "fade_start"} /\ result.ok) =>
        LET p == PayloadOf(result.value)
            a == call.addr
            r == IntOf(call.rate)
        IN  /\ p[1] = call.level
            /\ (a.is_device /\ a.multi_channel)
                  => p = <<call.level, IF r = -1 THEN 255 ELSE r, a.channel + 1>>
            /\ (~(a.is_device /\ a.multi_channel) /\ r # -1) => p = <<call.level, r>>
            /\ (~(a.is_device /\ a.multi_channel) /\ r = -1) => p = <<call.level>>
            /\ (a.is_link \/ ~a.multi_channel) => Len(p) <= 2

\* multi_channel, channel 2, level 50, rate -1 gives [50, 0xFF, 3]
LevelRatePayloadWitness ==
    /\ call.op = "goto"
    /\ result.ok
    /\ call.addr.multi_channel /\ call.addr.channel = 2
    /\ call.level = 50 /\ call.rate = -10
    /\ PayloadOf(result.value) = <<50, 255, 3>>

-----------------------------------------------------------------------------
(* C10: increment_tx_count changes only the tx-count field and the         *)
(* checksum: the result has the length of its input and decodes to the     *)
(* same link, repeater_req, length, ack_req, tx_seq, network_id, dest_id,  *)
(* src_id, msg_id and data; the field it rewrites is the decoder's         *)
(* tx_count, which goes from t to min(t + 1, 3).                           *)
IncrementTouchesOnlyTxCount ==
    call.op = "increment_tx_count" =>
        LET a == MessageOf(call.hex_msg)
            b == MessageOf(result.value)
        IN  /\ Len(result.value) = Len(call.hex_msg)
            /\ [b EXCEPT !.tx_count = a.tx_count] = a
            /\ b.tx_count = Min(a.tx_count + 1, 3)
            /\ \A i \in 1..Len(FrameBytes(call.hex_msg)) :
                  (i # 2 /\ i # Len(FrameBytes(call.hex_msg)))
                      => FrameBytes(result.value)[i] = FrameBytes(call.hex_msg)[i]

\* a retry of a frame with a payload, tx_seq 3 and tx-count 0
IncrementWitness ==
    /\ call.op = "increment_tx_count"
    /\ MessageOf(call.hex_msg).tx_seq = 3
    /\ MessageOf(call.hex_msg).tx_count = 0
    /\ MessageOf(result.value).tx_count = 1
    /\ Len(MessageOf(result.value).data) = 3

-----------------------------------------------------------------------------
(* C5: decode raises (ValueError, the spec's MalformedFrame) and returns   *)
(* nothing for every input of fewer than 6 bytes, and succeeds for every   *)
(* input of 6 or more bytes whatever its contents, reporting its bytes 3   *)
(* to 6 and the rest as data; a decode call leaves the handler registry    *)
(* and the frame the caller holds as they were.                            *)
DecodeTotal ==
    /\ [](call.op = "decode" =>
            /\ Len(call.msg) < 6 => result = Raised("ValueError")
            /\ Len(call.msg) >= 6 =>
                  /\ result.ok
                  /\ result.value.network_id = call.msg[3]
                  /\ result.value.dest_id = call.msg[4]
                  /\ result.value.src_id = call.msg[5]
                  /\ result.value.msg_id = call.msg[6]
                  /\ Len(result.value.data) = Len(call.msg) - 6
                  /\ \A i \in 1..Len(result.value.data) :
                        result.value.data[i] = call.msg[6 + i])
    /\ [][call'.op = "decode" =>
            /\ handlers' = handlers
            /\ frame' = frame
            /\ called' = <<>>]_vars

\* six bytes of 0xFF, an unknown code and no payload, decoded with handlers registered
DecodeTotalWitness ==
    /\ call.op = "decode"
    /\ call.msg = <<255, 255, 255, 255, 255, 119>>
    /\ result.ok
    /\ result.value.data = <<>>
    /\ result.value.msg_id \notin {UpbCommand[k] : k \in DOMAIN UpbCommand}
    /\ DOMAIN handlers # {}

-----------------------------------------------------------------------------
(* C6: _create_control_word(addr, repeaterReq, ackReq) with get_tx_count   *)
(* returning n has bit 15 = addr.is_link, bits 14-13 = repeaterReq, bits   *)
(* 12-8 = 0, bits 7-4 = ackReq, bits 3-2 = n - 1 and bits 1-0 = 0, and     *)
(* decode of a frame carrying it returns that link, repeater_req, ack_req, *)
(* tx_count = n - 1 and tx_seq = 0.                                        *)
ControlWordPacking ==
    /\ ctlWord.word # -1 =>
          /\ ctlWord.word \in 0..65535
          /\ Field(ctlWord.word, 15, 15) = (IF ctlWord.addr.is_link THEN 1 ELSE 0)
          /\ Field(ctlWord.word, 14, 13) = ctlWord.repeater
          /\ Field(ctlWord.word, 12, 8) = 0
          /\ Field(ctlWord.word, 7, 4) = ctlWord.ack
          /\ Field(ctlWord.word, 3, 2) = ctlWord.n - 1
          /\ Field(ctlWord.word, 1, 0) = 0
    /\ (ctlWord.word # -1 /\ DecodedOwnFrame /\ built.ctl = ctlWord.word) =>
          /\ result.ok
          /\ result.value.link = ctlWord.addr.is_link
          /\ result.value.repeater_req = ctlWord.repeater
          /\ result.value.ack_req = ctlWord.ack
          /\ result.value.tx_count = ctlWord.n - 1
          /\ result.value.tx_seq = 0

\* link, repeaterReq 2, ackReq 5, declared count 3: 1 10 00000 0101 10 00, carried by a frame
ControlWordPackingWitness ==
    /\ ctlWord.word = 49240
    /\ ctlWord.addr.is_link /\ ctlWord.repeater = 2 /\ ctlWord.ack = 5 /\ ctlWord.n = 3
    /\ DecodedOwnFrame
    /\ built.ctl = ctlWord.word
    /\ result.value.repeater_req = 2 /\ result.value.ack_req = 5
    /\ result.value.tx_count = 2

-----------------------------------------------------------------------------
NoDuplicates(list) == \A i, j \in 1..Len(list) : list[i] = list[j] => i = j

-----------------------------------------------------------------------------
=============================================================================
